---- MODULE Spec2Model ----
(***************************************************************************)
(* user_stream_consumer: a Lambda handler that receives DynamoDB stream    *)
(* records of the users table through SQS and keeps the organization       *)
(* membership records of a second table in step with each user's           *)
(* "organizations" list.                                                   *)
(*                                                                         *)
(* Strings are sequences of one-character strings, so that Sprintf         *)
(* concatenation and strings.Split are computed, not assumed.              *)
(***************************************************************************)
EXTENDS Integers, Sequences, FiniteSets, TLC

\* ------------------------------------------------------------------ bounds
\* longest "organizations" list carried by a snapshot
MaxLen == 2
\* most records in one SQS event
MaxRecords == 2
\* most changes made to the users table in one behaviour of SpecStream
MaxChanges == 3

\* ------------------------------------------------------------------ strings
Sep == "#"

OrgPrefix == <<"O", "R", "G", "A", "N", "I", "Z", "A", "T", "I", "O", "N", "#">>

MemPrefix == <<"M", "E", "M", "B", "E", "R", "S", "H", "I", "P", "#">>

Range(seq) == {seq[j] : j \in 1..Len(seq)}

\* strings.Split(s, sep) for a one-character separator
RECURSIVE Split(_, _)
Split(s, sep) ==
    IF \A j \in 1..Len(s) : s[j] # sep
    THEN <<s>>
    ELSE LET j == CHOOSE k \in 1..Len(s) :
                      s[k] = sep /\ \A m \in 1..(k - 1) : s[m] # sep
         IN  <<SubSeq(s, 1, j - 1)>> \o Split(SubSeq(s, j + 1, Len(s)), sep)

\* parts[1] of the Go slice is parts[2] of the 1-based sequence
extractUserID(compositeKey) ==
    LET parts == Split(compositeKey, Sep)
    IN  IF Len(parts) < 2 THEN compositeKey ELSE parts[2]

\* ------------------------------------------------------------------ inputs
\* organization ids appearing in "organizations" lists
Orgs == {<<"a">>, <<"b">>}

OrgLists == UNION {[1..n -> Orgs] : n \in 0..MaxLen}

\* user keys: the documented format, and one whose id holds the separator
UserKeys == {<<"U", "#", "1">>, <<"U", "#", "2", "#", "x">>}

\* a DynamoDBAttributeValue read with String(): ok is false when the
\* attribute is missing from the image or is not of type S
PKAttrs == {[ok |-> TRUE, S |-> k] : k \in UserKeys} \cup {[ok |-> FALSE, S |-> <<>>]}

\* image["organizations"]: ok is the map lookup's second result
OrgAttrs == {[ok |-> TRUE, L |-> l] : l \in OrgLists} \cup {[ok |-> FALSE, L |-> <<>>]}

NilImage == [nil |-> TRUE, pk |-> [ok |-> FALSE, S |-> <<>>],
             organizations |-> [ok |-> FALSE, L |-> <<>>]]

Images == {NilImage} \cup
          {[nil |-> FALSE, pk |-> p, organizations |-> o] : p \in PKAttrs, o \in OrgAttrs}

EventNames == {"INSERT", "MODIFY", "REMOVE", "OTHER"}

\* events.DynamoDBEventRecord as far as the handler reads it
NoRecord == [EventName |-> "", OldImage |-> NilImage, NewImage |-> NilImage]

Records == {[EventName |-> e, OldImage |-> o, NewImage |-> n] :
                e \in EventNames, o \in Images, n \in Images}

\* an SQS message body: text that json.Unmarshal rejects, or the encoding
\* of a stream record
Bodies == {[malformed |-> TRUE, record |-> NoRecord]} \cup
          {[malformed |-> FALSE, record |-> r] : r \in Records}

\* json.Unmarshal([]byte(record.Body), &der)
Unmarshal(body) ==
    IF body.malformed THEN [err |-> TRUE, der |-> NoRecord]
                      ELSE [err |-> FALSE, der |-> body.record]

\* ------------------------------------------------------------------ write requests
DeleteRequest(pk, sk) == [op |-> "DeleteRequest", pk |-> pk, sk |-> sk]

PutRequest(item) == [op |-> "PutRequest", pk |-> item.pk, sk |-> item.sk]

\* the organizations whose membership record the encoder rejects: two string
\* fields always encode, so the set is empty except where a failure of
\* MarshalMap is assumed, to exercise the error branch of createWriteRequests
VARIABLE unencodable

\* attributevalue.MarshalMap(membership): the dynamodbav tags name the
\* attributes pk and sk
MarshalMap(membership) ==
    [err |-> membership.PK \in {OrgPrefix \o t : t \in unencodable},
     item |-> [pk |-> membership.PK, sk |-> membership.SK]]

organizationMembership(orgID, userPK) ==
    [PK |-> OrgPrefix \o orgID, SK |-> MemPrefix \o extractUserID(userPK)]

RECURSIVE createWriteRequests(_, _, _)
createWriteRequests(userPK, organizations, isDelete) ==
    IF organizations = <<>>
    THEN <<>>
    ELSE LET orgID == Head(organizations)
             rest  == createWriteRequests(userPK, Tail(organizations), isDelete)
             m     == MarshalMap(organizationMembership(orgID, userPK))
         IN  IF isDelete
             THEN <<DeleteRequest(OrgPrefix \o orgID,
                                  MemPrefix \o extractUserID(userPK))>> \o rest
             ELSE IF m.err THEN rest
                           ELSE <<PutRequest(m.item)>> \o rest

\* the loop "for _, org := range orgs.List()" guarded by the ok of the lookup
readOrganizations(image) ==
    IF image.organizations.ok THEN image.organizations.L ELSE <<>>

\* the elements of xs that the inner scan does not find in ys
notFound(xs, ys) ==
    SelectSeq(xs, LAMBDA org : \A j \in 1..Len(ys) : ys[j] # org)

\* nothing is ever removed
toRemove_None(oldOrgs, newOrgs) == <<>>

\* the scan's result is dropped and every old organization is removed
toRemove_KeepsAll(oldOrgs, newOrgs) == oldOrgs

toRemove(oldOrgs, newOrgs) == notFound(oldOrgs, newOrgs)

\* xs with only the first occurrence of each element
Dedup(xs) ==
    LET F[n \in 0..Len(xs)] ==
            IF n = 0 THEN <<>>
            ELSE IF xs[n] \in Range(F[n - 1]) THEN F[n - 1]
                 ELSE Append(F[n - 1], xs[n])
    IN  F[Len(xs)]

\* nothing is ever added
toAdd_None(newOrgs, oldOrgs) == <<>>

\* the additions are collected as a set
toAdd_Dedup(newOrgs, oldOrgs) == Dedup(notFound(newOrgs, oldOrgs))

toAdd(newOrgs, oldOrgs) == notFound(newOrgs, oldOrgs)

\* the switch on der.EventName: "continue" (a nil image), "panic" (String()
\* on an attribute that is not of type S) or the write requests
\* the requests are keyed by the new image when the record carries one
removeCase_NewKey(der) ==
    IF der.OldImage.nil THEN [act |-> "continue", reqs |-> <<>>]
    ELSE IF ~der.OldImage.pk.ok THEN [act |-> "panic", reqs |-> <<>>]
    ELSE [act |-> "requests",
          reqs |-> createWriteRequests(IF der.NewImage.pk.ok THEN der.NewImage.pk.S
                                                             ELSE der.OldImage.pk.S,
                                       readOrganizations(der.OldImage), TRUE)]

\* the lookup's ok is not checked: List() is called on the zero attribute of
\* an absent "organizations" and panics
removeCase_NoOkCheck(der) ==
    IF der.OldImage.nil THEN [act |-> "continue", reqs |-> <<>>]
    ELSE IF ~der.OldImage.pk.ok THEN [act |-> "panic", reqs |-> <<>>]
    ELSE IF ~der.OldImage.organizations.ok THEN [act |-> "panic", reqs |-> <<>>]
    ELSE [act |-> "requests",
          reqs |-> createWriteRequests(der.OldImage.pk.S,
                                       der.OldImage.organizations.L, TRUE)]

removeCase(der) ==
    IF der.OldImage.nil THEN [act |-> "continue", reqs |-> <<>>]
    ELSE IF ~der.OldImage.pk.ok THEN [act |-> "panic", reqs |-> <<>>]
    ELSE [act |-> "requests",
          reqs |-> createWriteRequests(der.OldImage.pk.S,
                                       readOrganizations(der.OldImage), TRUE)]

\* the nil check of the new image is missing: a nil map yields the zero
\* attribute, whose String() panics
modifyCase_NoNilCheck(der) ==
    IF ~der.NewImage.pk.ok THEN [act |-> "panic", reqs |-> <<>>]
    ELSE LET oldOrgs == IF der.OldImage.nil THEN <<>>
                        ELSE readOrganizations(der.OldImage)
             newOrgs == readOrganizations(der.NewImage)
             userPK  == der.NewImage.pk.S
         IN  [act |-> "requests",
              reqs |-> createWriteRequests(userPK, toRemove(oldOrgs, newOrgs), TRUE)
                       \o createWriteRequests(userPK, toAdd(newOrgs, oldOrgs), FALSE)]

\* the puts are appended before the deletes
modifyCase_PutsFirst(der) ==
    IF der.NewImage.nil THEN [act |-> "continue", reqs |-> <<>>]
    ELSE IF ~der.NewImage.pk.ok THEN [act |-> "panic", reqs |-> <<>>]
    ELSE LET oldOrgs == IF der.OldImage.nil THEN <<>>
                        ELSE readOrganizations(der.OldImage)
             newOrgs == readOrganizations(der.NewImage)
             userPK  == der.NewImage.pk.S
         IN  [act |-> "requests",
              reqs |-> createWriteRequests(userPK, toAdd(newOrgs, oldOrgs), FALSE)
                       \o createWriteRequests(userPK, toRemove(oldOrgs, newOrgs), TRUE)]

\* the memberships are replaced: every old one is deleted and every new one
\* is put
modifyCase_ReplaceAll(der) ==
    IF der.NewImage.nil THEN [act |-> "continue", reqs |-> <<>>]
    ELSE IF ~der.NewImage.pk.ok THEN [act |-> "panic", reqs |-> <<>>]
    ELSE LET oldOrgs == IF der.OldImage.nil THEN <<>>
                        ELSE readOrganizations(der.OldImage)
             newOrgs == readOrganizations(der.NewImage)
             userPK  == der.NewImage.pk.S
         IN  [act |-> "requests",
              reqs |-> createWriteRequests(userPK, oldOrgs, TRUE)
                       \o createWriteRequests(userPK, newOrgs, FALSE)]

\* a record without an old image is skipped, as one without a new image is
modifyCase_SkipsNoOld(der) ==
    IF der.NewImage.nil \/ der.OldImage.nil THEN [act |-> "continue", reqs |-> <<>>]
    ELSE IF ~der.NewImage.pk.ok THEN [act |-> "panic", reqs |-> <<>>]
    ELSE LET oldOrgs == readOrganizations(der.OldImage)
             newOrgs == readOrganizations(der.NewImage)
             userPK  == der.NewImage.pk.S
         IN  [act |-> "requests",
              reqs |-> createWriteRequests(userPK, toRemove(oldOrgs, newOrgs), TRUE)
                       \o createWriteRequests(userPK, toAdd(newOrgs, oldOrgs), FALSE)]

modifyCase(der) ==
    IF der.NewImage.nil THEN [act |-> "continue", reqs |-> <<>>]
    ELSE IF ~der.NewImage.pk.ok THEN [act |-> "panic", reqs |-> <<>>]
    ELSE LET oldOrgs == IF der.OldImage.nil THEN <<>>
                        ELSE readOrganizations(der.OldImage)
             newOrgs == readOrganizations(der.NewImage)
             userPK  == der.NewImage.pk.S
         IN  [act |-> "requests",
              reqs |-> createWriteRequests(userPK, toRemove(oldOrgs, newOrgs), TRUE)
                       \o createWriteRequests(userPK, toAdd(newOrgs, oldOrgs), FALSE)]

\* the pk is read with a lookup that yields the empty string for an
\* attribute that is missing or not of type S
insertCase_EmptyKey(der) ==
    IF der.NewImage.nil THEN [act |-> "continue", reqs |-> <<>>]
    ELSE [act |-> "requests",
          reqs |-> createWriteRequests(IF der.NewImage.pk.ok THEN der.NewImage.pk.S
                                                             ELSE <<>>,
                                       readOrganizations(der.NewImage), FALSE)]

\* the requests are keyed by the old image when the record carries one
insertCase_OldKey(der) ==
    IF der.NewImage.nil THEN [act |-> "continue", reqs |-> <<>>]
    ELSE IF ~der.NewImage.pk.ok THEN [act |-> "panic", reqs |-> <<>>]
    ELSE [act |-> "requests",
          reqs |-> createWriteRequests(IF der.OldImage.pk.ok THEN der.OldImage.pk.S
                                                             ELSE der.NewImage.pk.S,
                                       readOrganizations(der.NewImage), FALSE)]

insertCase(der) ==
    IF der.NewImage.nil THEN [act |-> "continue", reqs |-> <<>>]
    ELSE IF ~der.NewImage.pk.ok THEN [act |-> "panic", reqs |-> <<>>]
    ELSE [act |-> "requests",
          reqs |-> createWriteRequests(der.NewImage.pk.S,
                                       readOrganizations(der.NewImage), FALSE)]

\* the switch has a default case that fails the invocation
eventSwitch_UnknownFails(der) ==
    CASE der.EventName = "REMOVE" -> removeCase(der)
      [] der.EventName = "MODIFY" -> modifyCase(der)
      [] der.EventName = "INSERT" -> insertCase(der)
      [] OTHER -> [act |-> "panic", reqs |-> <<>>]

eventSwitch(der) ==
    CASE der.EventName = "REMOVE" -> removeCase(der)
      [] der.EventName = "MODIFY" -> modifyCase(der)
      [] der.EventName = "INSERT" -> insertCase(der)
      [] OTHER -> [act |-> "requests", reqs |-> <<>>]

\* ------------------------------------------------------------------ the table
IndexKey(req) == [pk |-> req.pk, sk |-> req.sk]

\* a table that keeps what it holds: a put of a key already present is
\* stored as a further item beside the first
RECURSIVE ApplyRequests_KeepsCopies(_, _)
ApplyRequests_KeepsCopies(table, reqs) ==
    IF reqs = <<>> THEN table
    ELSE LET r == Head(reqs)
             copy == [pk |-> r.pk, sk |-> r.sk \o <<"+">>]
         IN  ApplyRequests_KeepsCopies(
                 IF r.op = "PutRequest"
                 THEN table \cup {IF IndexKey(r) \in table THEN copy ELSE IndexKey(r)}
                 ELSE table \ {IndexKey(r)},
                 Tail(reqs))

\* the membership table after the requests are applied in order
RECURSIVE ApplyRequests(_, _)
ApplyRequests(table, reqs) ==
    IF reqs = <<>> THEN table
    ELSE LET r == Head(reqs)
         IN  ApplyRequests(IF r.op = "PutRequest" THEN table \cup {IndexKey(r)}
                                                  ELSE table \ {IndexKey(r)},
                           Tail(reqs))

\* the requests at the positions of keep, in order
Selected(reqs, keep) ==
    LET F[n \in 0..Len(reqs)] ==
            IF n = 0 THEN <<>>
            ELSE IF n \in keep THEN Append(F[n - 1], reqs[n]) ELSE F[n - 1]
    IN  F[Len(reqs)]

\* ------------------------------------------------------------------ state
VARIABLES
    users,          \* users table: key -> [present, organizations]
    queue,          \* message bodies of the stream queue, oldest first
    changes,        \* changes made to the users table so far
    nrecords,       \* len(event.Records) of the invocation
    i,              \* records of the event the loop has finished
    pc,             \* "idle", "loop", "unmarshal", "switch", "send", "done"
    body,           \* record.Body of the iteration
    der,            \* the decoded record of the iteration
    writeRequests,  \* the write requests of the iteration
    result,         \* "none", "nil", "unmarshal_error", "batch_write_error", "panic"
    outcomes,       \* per finished record: "skipped", "empty" or "written"
    calls,          \* BatchWriteItem calls of the invocation: [rec, err, table]
    index,          \* the membership table: a set of [pk, sk]
    attempt,        \* deliveries of a batch: [start, aborted]
    delivered,      \* positions of the queue handled by an invocation that returned nil
    pending,        \* concurrent invocations: invocation -> [state, reqs, next]
    getenv,         \* what getenv("TABLE_NAME") returns now, "" when unset
    tableName       \* the handler's tableName, "" before it is constructed

vars == <<users, queue, changes, nrecords, i, pc, body, der, writeRequests,
          result, outcomes, calls, index, unencodable, attempt, delivered, pending,
          getenv, tableName>>

\* what the handler's own steps never touch besides the users table and
\* the queue
config == <<getenv, tableName>>

\* tableName = "poc-organizations" when getenv returns the empty string
DefaultTable == "poc-organizations"

\* values of TABLE_NAME: unset or empty, the table of the template, another
TableNames == {"", "poc-organizations", "test-table"}

\* tableName := getenv("TABLE_NAME"); if tableName == "" { ... }
ResolveTable(v) == IF v = "" THEN DefaultTable ELSE v

harness == <<config, unencodable, attempt, delivered, pending>>

stream == <<users, queue, changes, harness>>

\* the two invocations that may run at once
Invocations == {1, 2}

NoAttempt == [start |-> {}, aborted |-> FALSE]

NoPending == [v \in Invocations |-> [state |-> "idle", reqs |-> <<>>, next |-> 1]]

NoHarness ==
    /\ getenv = "poc-organizations"
    /\ tableName = ResolveTable(getenv)
    /\ unencodable = {}
    /\ attempt = NoAttempt
    /\ delivered = {}
    /\ pending = NoPending

NoUser == [present |-> FALSE, organizations |-> <<>>]

NoBody == [malformed |-> FALSE, record |-> NoRecord]

\* ------------------------------------------------------------------ handler
\* for _, record := range event.Records
NextRecord(b) ==
    /\ pc = "loop"
    /\ i < nrecords
    /\ body' = b
    /\ pc' = "unmarshal"
    /\ UNCHANGED <<stream, nrecords, i, der, writeRequests, result, outcomes,
                   calls, index>>

\* the error of json.Unmarshal is dropped and the zero record is processed
Decode_IgnoresError ==
    /\ pc = "unmarshal"
    /\ der' = Unmarshal(body).der
    /\ pc' = "switch"
    /\ UNCHANGED <<stream, nrecords, i, body, writeRequests, result, outcomes,
                   calls, index>>

\* json.Unmarshal([]byte(record.Body), &der), and the return on its error
Decode ==
    /\ pc = "unmarshal"
    /\ LET u == Unmarshal(body)
       IN  IF u.err
           THEN /\ result' = "unmarshal_error"
                /\ pc' = "done"
                /\ der' = der
           ELSE /\ der' = u.der
                /\ pc' = "switch"
                /\ result' = result
    /\ UNCHANGED <<stream, nrecords, i, body, writeRequests, outcomes, calls, index>>

\* switch der.EventName { ... }
Switch ==
    /\ pc = "switch"
    /\ LET s == eventSwitch(der)
       IN  CASE s.act = "continue" ->
                    /\ i' = i + 1
                    /\ pc' = "loop"
                    /\ outcomes' = Append(outcomes, "skipped")
                    /\ body' = NoBody
                    /\ der' = NoRecord
                    /\ UNCHANGED <<writeRequests, result>>
             [] s.act = "panic" ->
                    /\ result' = "panic"
                    /\ pc' = "done"
                    /\ UNCHANGED <<i, outcomes, body, der, writeRequests>>
             [] OTHER ->
                    /\ writeRequests' = s.reqs
                    /\ pc' = "send"
                    /\ UNCHANGED <<i, outcomes, body, der, result>>
    /\ UNCHANGED <<stream, nrecords, calls, index>>

\* the length check is missing: the empty request list is sent, the service
\* rejects it and the handler returns the error
SkipEmpty_Calls ==
    /\ pc = "send"
    /\ Len(writeRequests) = 0
    /\ calls' = Append(calls, [rec |-> i + 1, err |-> TRUE, table |-> tableName])
    /\ result' = "batch_write_error"
    /\ pc' = "done"
    /\ UNCHANGED <<stream, nrecords, i, outcomes, body, der, writeRequests, index>>

\* if len(writeRequests) == 0 { continue }
SkipEmpty ==
    /\ pc = "send"
    /\ Len(writeRequests) = 0
    /\ i' = i + 1
    /\ pc' = "loop"
    /\ outcomes' = Append(outcomes, "empty")
    /\ body' = NoBody
    /\ der' = NoRecord
    /\ UNCHANGED <<stream, nrecords, writeRequests, result, calls, index>>

\* the deletes and the puts are sent in two calls
WriteOK_TwoCalls ==
    /\ pc = "send"
    /\ Len(writeRequests) > 0
    /\ calls' = calls \o <<[rec |-> i + 1, err |-> FALSE, table |-> tableName],
                         [rec |-> i + 1, err |-> FALSE, table |-> tableName]>>
    /\ index' = ApplyRequests(index, writeRequests)
    /\ i' = i + 1
    /\ pc' = "loop"
    /\ outcomes' = Append(outcomes, "written")
    /\ body' = NoBody
    /\ der' = NoRecord
    /\ writeRequests' = <<>>
    /\ UNCHANGED <<stream, nrecords, result>>

\* the call is started and the loop goes on without waiting for it
WriteOK_Deferred ==
    /\ pc = "send"
    /\ Len(writeRequests) > 0
    /\ i' = i + 1
    /\ pc' = "loop"
    /\ outcomes' = Append(outcomes, "written")
    /\ body' = NoBody
    /\ der' = NoRecord
    /\ writeRequests' = <<>>
    /\ UNCHANGED <<stream, nrecords, result, calls, index>>

\* the table is looked up when the call is made
WriteOK_ReadsEnv ==
    /\ pc = "send"
    /\ Len(writeRequests) > 0
    /\ calls' = Append(calls, [rec |-> i + 1, err |-> FALSE,
                               table |-> ResolveTable(getenv)])
    /\ index' = ApplyRequests(index, writeRequests)
    /\ i' = i + 1
    /\ pc' = "loop"
    /\ outcomes' = Append(outcomes, "written")
    /\ body' = NoBody
    /\ der' = NoRecord
    /\ writeRequests' = <<>>
    /\ UNCHANGED <<stream, nrecords, result>>

\* client.BatchWriteItem returns nil: every request is applied
WriteOK ==
    /\ pc = "send"
    /\ Len(writeRequests) > 0
    /\ calls' = Append(calls, [rec |-> i + 1, err |-> FALSE, table |-> tableName])
    /\ index' = ApplyRequests(index, writeRequests)
    /\ i' = i + 1
    /\ pc' = "loop"
    /\ outcomes' = Append(outcomes, "written")
    /\ body' = NoBody
    /\ der' = NoRecord
    /\ writeRequests' = <<>>
    /\ UNCHANGED <<stream, nrecords, result>>

\* the error of BatchWriteItem is logged and the loop goes on
WriteFail_Continues ==
    /\ pc = "send"
    /\ Len(writeRequests) > 0
    /\ calls' = Append(calls, [rec |-> i + 1, err |-> TRUE, table |-> tableName])
    /\ \E keep \in SUBSET (1..Len(writeRequests)) :
           index' = ApplyRequests(index, Selected(writeRequests, keep))
    /\ i' = i + 1
    /\ pc' = "loop"
    /\ outcomes' = Append(outcomes, "written")
    /\ body' = NoBody
    /\ der' = NoRecord
    /\ writeRequests' = <<>>
    /\ UNCHANGED <<stream, nrecords, result>>

\* the error of BatchWriteItem is logged and nil is returned
WriteFail_ReturnsNil ==
    /\ pc = "send"
    /\ Len(writeRequests) > 0
    /\ calls' = Append(calls, [rec |-> i + 1, err |-> TRUE, table |-> tableName])
    /\ \E keep \in SUBSET (1..Len(writeRequests)) :
           index' = ApplyRequests(index, Selected(writeRequests, keep))
    /\ result' = "nil"
    /\ pc' = "done"
    /\ UNCHANGED <<stream, nrecords, i, outcomes, body, der, writeRequests>>

\* client.BatchWriteItem returns an error: any part of the call may have
\* been applied; the handler returns the wrapped error
WriteFail ==
    /\ pc = "send"
    /\ Len(writeRequests) > 0
    /\ calls' = Append(calls, [rec |-> i + 1, err |-> TRUE, table |-> tableName])
    /\ \E keep \in SUBSET (1..Len(writeRequests)) :
           index' = ApplyRequests(index, Selected(writeRequests, keep))
    /\ result' = "batch_write_error"
    /\ pc' = "done"
    /\ UNCHANGED <<stream, nrecords, i, outcomes, body, der, writeRequests>>

\* the loop ends: return nil
ReturnNil ==
    /\ pc = "loop"
    /\ i = nrecords
    /\ result' = "nil"
    /\ pc' = "done"
    /\ UNCHANGED <<stream, nrecords, i, outcomes, body, der, writeRequests,
                   calls, index>>

Step == Decode \/ Switch \/ SkipEmpty \/ WriteOK \/ WriteFail \/ ReturnNil

\* ------------------------------------------------------------------ one invocation on any event
Init ==
    /\ users = [k \in UserKeys |-> NoUser]
    /\ queue = <<>>
    /\ changes = 0
    /\ nrecords \in 0..MaxRecords
    /\ i = 0
    /\ pc = "loop"
    /\ body = NoBody
    /\ der = NoRecord
    /\ writeRequests = <<>>
    /\ result = "none"
    /\ outcomes = <<>>
    /\ calls = <<>>
    /\ index = {}
    /\ NoHarness

NextAny ==
    /\ pc = "loop"
    /\ \E b \in Bodies : NextRecord(b)

Next == NextAny \/ Step

Spec == Init /\ [][Next]_vars

\* ------------------------------------------------------------------ users table, stream and queue
\* Every record of the users table's stream reaches the queue, in order.
\* (The pipe of the template filters on the event names INSERT, MODIFY and
\* DELETE, while the stream names a deletion REMOVE; the filter is not
\* applied here, so that the handler's REMOVE case is exercised.)
UserImage(k, orgs) ==
    [nil |-> FALSE, pk |-> [ok |-> TRUE, S |-> k],
     organizations |-> [ok |-> TRUE, L |-> orgs]]

StreamBody(name, old, new) ==
    [malformed |-> FALSE,
     record |-> [EventName |-> name, OldImage |-> old, NewImage |-> new]]

\* a user item is written: the stream (NEW_AND_OLD_IMAGES) emits INSERT for
\* a new key and MODIFY for an existing one, and the pipe appends the record
\* to the FIFO queue
PutUser(k, orgs) ==
    /\ changes < MaxChanges
    /\ users[k] # [present |-> TRUE, organizations |-> orgs]
    /\ users' = [users EXCEPT ![k] = [present |-> TRUE, organizations |-> orgs]]
    /\ queue' = Append(queue,
                       IF users[k].present
                       THEN StreamBody("MODIFY", UserImage(k, users[k].organizations),
                                       UserImage(k, orgs))
                       ELSE StreamBody("INSERT", NilImage, UserImage(k, orgs)))
    /\ changes' = changes + 1
    /\ UNCHANGED <<nrecords, i, pc, body, der, writeRequests, result, outcomes,
                   calls, index, harness>>

\* a user item is deleted: the stream emits REMOVE with the old image
DeleteUser(k) ==
    /\ changes < MaxChanges
    /\ users[k].present
    /\ users' = [users EXCEPT ![k] = NoUser]
    /\ queue' = Append(queue,
                       StreamBody("REMOVE", UserImage(k, users[k].organizations), NilImage))
    /\ changes' = changes + 1
    /\ UNCHANGED <<nrecords, i, pc, body, der, writeRequests, result, outcomes,
                   calls, index, harness>>

\* the SQS event source invokes the function with the oldest messages
Receive ==
    /\ pc = "idle"
    /\ queue # <<>>
    /\ \E n \in 1..MaxRecords :
           /\ n <= Len(queue)
           /\ nrecords' = n
    /\ i' = 0
    /\ pc' = "loop"
    /\ result' = "none"
    /\ outcomes' = <<>>
    /\ calls' = <<>>
    /\ UNCHANGED <<stream, body, der, writeRequests, index>>

NextQueued ==
    /\ i < Len(queue)
    /\ NextRecord(queue[i + 1])

\* the invocation is over: a nil result deletes the batch from the queue,
\* an error leaves every message of it to be delivered again
Return ==
    /\ pc = "done"
    /\ queue' = IF result = "nil" THEN SubSeq(queue, nrecords + 1, Len(queue))
                                  ELSE queue
    /\ pc' = "idle"
    /\ body' = NoBody
    /\ der' = NoRecord
    /\ writeRequests' = <<>>
    /\ UNCHANGED <<users, changes, nrecords, i, result, outcomes, calls, index,
                   harness>>

InitStream ==
    /\ users = [k \in UserKeys |-> NoUser]
    /\ queue = <<>>
    /\ changes = 0
    /\ nrecords = 0
    /\ i = 0
    /\ pc = "idle"
    /\ body = NoBody
    /\ der = NoRecord
    /\ writeRequests = <<>>
    /\ result = "none"
    /\ outcomes = <<>>
    /\ calls = <<>>
    /\ index = {}
    /\ NoHarness

Change ==
    /\ changes < MaxChanges
    /\ \/ \E k \in UserKeys, orgs \in OrgLists : PutUser(k, orgs)
       \/ \E k \in UserKeys : DeleteUser(k)

NextStream == Change \/ Receive \/ NextQueued \/ Step \/ Return

SpecStream == InitStream /\ [][NextStream]_vars

\* ------------------------------------------------------------------ one record, any key
KeyChars == {"U", "#", "1"}

\* every string of at most MaxKeyLen characters
MaxKeyLen == 4

AllKeys == UNION {[1..n -> KeyChars] : n \in 0..MaxKeyLen}

KeyBodies ==
    {StreamBody("INSERT", NilImage, UserImage(k, l)) : k \in AllKeys, l \in OrgLists}
    \cup {StreamBody("REMOVE", UserImage(k, l), NilImage) : k \in AllKeys, l \in OrgLists}

NextKeyed ==
    /\ pc = "loop"
    /\ \E b \in KeyBodies : NextRecord(b)

InitKeys ==
    /\ users = [k \in UserKeys |-> NoUser]
    /\ queue = <<>>
    /\ changes = 0
    /\ nrecords = 1
    /\ i = 0
    /\ pc = "loop"
    /\ body = NoBody
    /\ der = NoRecord
    /\ writeRequests = <<>>
    /\ result = "none"
    /\ outcomes = <<>>
    /\ calls = <<>>
    /\ index = {}
    /\ NoHarness

NextKeys == NextKeyed \/ Step

SpecKeys == InitKeys /\ [][NextKeys]_vars

\* ------------------------------------------------------------------ one record, a failing encoder
\* one invocation on one message, MarshalMap rejecting the membership
\* records of some organizations
InitMarshal ==
    /\ users = [k \in UserKeys |-> NoUser]
    /\ queue \in {<<b>> : b \in Bodies}
    /\ changes = 0
    /\ nrecords = 1
    /\ i = 0
    /\ pc = "loop"
    /\ body = NoBody
    /\ der = NoRecord
    /\ writeRequests = <<>>
    /\ result = "none"
    /\ outcomes = <<>>
    /\ calls = <<>>
    /\ index = {}
    /\ getenv = "poc-organizations"
    /\ tableName = ResolveTable(getenv)
    /\ unencodable \in (SUBSET Orgs) \ {{}}
    /\ attempt = NoAttempt
    /\ delivered = {}
    /\ pending = NoPending

NextMarshal == NextQueued \/ Step

SpecMarshal == InitMarshal /\ [][NextMarshal]_vars

\* ------------------------------------------------------------------ the changes of one user
\* the user whose changes are followed
EntityOne == <<"U", "#", "1">>

\* the membership lists without repeats
SetLists == {l \in OrgLists : \A j, k \in 1..Len(l) : j # k => l[j] # l[k]}

\* a change of the user's item
ChangeOne ==
    \/ \E orgs \in SetLists : PutUser(EntityOne, orgs)
    \/ DeleteUser(EntityOne)

\* the record the handler writes for organization t and user key k
IndexRecord(t, k) == [pk |-> OrgPrefix \o t, sk |-> MemPrefix \o extractUserID(k)]

\* the records the table can hold for the user
EntityRecords == {IndexRecord(t, EntityOne) : t \in Orgs}

\* ------------------------------------------------------------------ a batch delivered until it succeeds
\* the user's item changes, then the messages are delivered as one batch;
\* an invocation that returns the batch write error leaves the messages on
\* the queue (no partial batch response is configured) and the same batch is
\* delivered again
BatchChange ==
    /\ pc = "idle"
    /\ nrecords = 0
    /\ Len(queue) < MaxRecords
    /\ ChangeOne

ReceiveAll ==
    /\ pc = "idle"
    /\ nrecords = 0
    /\ queue # <<>>
    /\ nrecords' = Len(queue)
    /\ i' = 0
    /\ pc' = "loop"
    /\ attempt' = [start |-> index, aborted |-> FALSE]
    /\ UNCHANGED <<users, queue, changes, body, der, writeRequests, result,
                   outcomes, calls, index, config, unencodable, delivered, pending>>

\* the message that failed is taken off the queue with the ones before it
Redeliver_SkipsFailed ==
    /\ pc = "done"
    /\ result = "batch_write_error"
    /\ pc' = "loop"
    /\ i' = i + 1
    /\ result' = "none"
    /\ outcomes' = Append(outcomes, "written")
    /\ body' = NoBody
    /\ der' = NoRecord
    /\ writeRequests' = <<>>
    /\ attempt' = [attempt EXCEPT !.aborted = TRUE]
    /\ UNCHANGED <<users, queue, changes, nrecords, calls, index, config, unencodable,
                   delivered, pending>>

Redeliver ==
    /\ pc = "done"
    /\ result = "batch_write_error"
    /\ pc' = "loop"
    /\ i' = 0
    /\ result' = "none"
    /\ outcomes' = <<>>
    /\ calls' = <<>>
    /\ body' = NoBody
    /\ der' = NoRecord
    /\ writeRequests' = <<>>
    /\ attempt' = [attempt EXCEPT !.aborted = TRUE]
    /\ UNCHANGED <<users, queue, changes, nrecords, index, config, unencodable,
                   delivered, pending>>

\* the table starts in any state over the user's records
InitRedeliver ==
    /\ users = [k \in UserKeys |-> NoUser]
    /\ queue = <<>>
    /\ changes = 0
    /\ nrecords = 0
    /\ i = 0
    /\ pc = "idle"
    /\ body = NoBody
    /\ der = NoRecord
    /\ writeRequests = <<>>
    /\ result = "none"
    /\ outcomes = <<>>
    /\ calls = <<>>
    /\ index \in SUBSET EntityRecords
    /\ NoHarness

NextRedeliver == BatchChange \/ ReceiveAll \/ NextQueued \/ Step \/ Redeliver

SpecRedeliver == InitRedeliver /\ [][NextRedeliver]_vars

\* ------------------------------------------------------------------ two invocations at once
\* Two changes of the user's item, each handled by an invocation of its
\* own. Both invocations derive their write requests before either writes;
\* the table then applies the requests of the two BatchWriteItem calls one
\* at a time, those of each call in order, the two calls interleaved freely.
PairChange ==
    /\ pc = "idle"
    /\ Len(queue) < Cardinality(Invocations)
    /\ \A v \in Invocations : pending[v].state = "idle"
    /\ ChangeOne

\* invocation v decodes message v and derives its write requests
Start(v) ==
    /\ Len(queue) = Cardinality(Invocations)
    /\ pending[v].state = "idle"
    /\ LET u == Unmarshal(queue[v])
           s == eventSwitch(u.der)
       IN  pending' = [pending EXCEPT ![v] =
                          [state |-> IF u.err \/ s.act = "panic" THEN "failed"
                                     ELSE IF s.reqs = <<>> THEN "done"
                                     ELSE "writing",
                           reqs |-> s.reqs,
                           next |-> 1]]
    /\ UNCHANGED <<users, queue, changes, nrecords, i, pc, body, der, writeRequests,
                   result, outcomes, calls, index, config, unencodable, attempt, delivered>>

\* the table applies the next request of the call of invocation v
ApplyOne(v) ==
    /\ \A w \in Invocations : pending[w].state # "idle"
    /\ pending[v].state = "writing"
    /\ index' = ApplyRequests(index, <<pending[v].reqs[pending[v].next]>>)
    /\ pending' = [pending EXCEPT ![v].next = @ + 1,
                                  ![v].state = IF pending[v].next = Len(pending[v].reqs)
                                               THEN "done" ELSE "writing"]
    /\ UNCHANGED <<users, queue, changes, nrecords, i, pc, body, der, writeRequests,
                   result, outcomes, calls, config, unencodable, attempt, delivered>>

StartAny == \E v \in Invocations : Start(v)

ApplyAny == \E v \in Invocations : ApplyOne(v)

\* the user's item starts in any state, the table consistent with it
InitConcurrent ==
    /\ \E u \in {NoUser} \cup {[present |-> TRUE, organizations |-> l] : l \in SetLists} :
           /\ users = [k \in UserKeys |-> IF k = EntityOne THEN u ELSE NoUser]
           /\ index = {IndexRecord(t, EntityOne) : t \in Range(u.organizations)}
    /\ queue = <<>>
    /\ changes = 0
    /\ nrecords = 0
    /\ i = 0
    /\ pc = "idle"
    /\ body = NoBody
    /\ der = NoRecord
    /\ writeRequests = <<>>
    /\ result = "none"
    /\ outcomes = <<>>
    /\ calls = <<>>
    /\ NoHarness

NextConcurrent == PairChange \/ StartAny \/ ApplyAny

SpecConcurrent == InitConcurrent /\ [][NextConcurrent]_vars

\* ------------------------------------------------------------------ messages delivered in any order
\* The user's item changes; then the messages are delivered one at a time,
\* any message at any time and any number of times. The event of an
\* invocation holds the message at position nrecords of the queue alone: the
\* loop starts at the position before it.
HistoryChange ==
    /\ pc = "idle"
    /\ nrecords = 0
    /\ ChangeOne

DeliverAny ==
    /\ pc = "idle"
    /\ \E m \in 1..Len(queue) :
           /\ i' = m - 1
           /\ nrecords' = m
    /\ pc' = "loop"
    /\ result' = "none"
    /\ outcomes' = <<>>
    /\ calls' = <<>>
    /\ UNCHANGED <<stream, body, der, writeRequests, index>>

\* the invocation is over; a message whose invocation returned nil has been
\* handled
Finish ==
    /\ pc = "done"
    /\ pc' = "idle"
    /\ delivered' = IF result = "nil" THEN delivered \cup {nrecords} ELSE delivered
    /\ body' = NoBody
    /\ der' = NoRecord
    /\ writeRequests' = <<>>
    /\ UNCHANGED <<users, queue, changes, nrecords, i, result, outcomes, calls,
                   index, config, unencodable, attempt, pending>>

NextReorder == HistoryChange \/ DeliverAny \/ NextQueued \/ Step \/ Finish

SpecReorder == InitStream /\ [][NextReorder]_vars

\* ------------------------------------------------------------------ the handler's table
\* The handler is constructed once and then invoked any number of times,
\* while what getenv returns may change at any time.
\* handler(logger, client, getenv): the table name is read and defaulted
Construct ==
    /\ pc = "new"
    /\ tableName' = ResolveTable(getenv)
    /\ pc' = "idle"
    /\ UNCHANGED <<users, queue, changes, nrecords, i, body, der, writeRequests,
                   result, outcomes, calls, index, getenv, unencodable, attempt,
                   delivered, pending>>

Setenv ==
    /\ \E v \in TableNames :
           /\ v # getenv
           /\ getenv' = v
    /\ UNCHANGED <<users, queue, changes, nrecords, i, pc, body, der, writeRequests,
                   result, outcomes, calls, index, tableName, unencodable, attempt,
                   delivered, pending>>

\* the function returned by handler is called with an event
Invoke ==
    /\ pc = "idle"
    /\ nrecords' \in 1..MaxRecords
    /\ i' = 0
    /\ pc' = "loop"
    /\ result' = "none"
    /\ outcomes' = <<>>
    /\ calls' = <<>>
    /\ UNCHANGED <<stream, body, der, writeRequests, index>>

TableBodies ==
    {StreamBody("INSERT", NilImage, UserImage(EntityOne, l)) : l \in SetLists}
    \cup {StreamBody("REMOVE", UserImage(EntityOne, l), NilImage) : l \in SetLists}

NextTabled ==
    /\ pc = "loop"
    /\ \E b \in TableBodies : NextRecord(b)

InitTable ==
    /\ users = [k \in UserKeys |-> NoUser]
    /\ queue = <<>>
    /\ changes = 0
    /\ nrecords = 0
    /\ i = 0
    /\ pc = "new"
    /\ body = NoBody
    /\ der = NoRecord
    /\ writeRequests = <<>>
    /\ result = "none"
    /\ outcomes = <<>>
    /\ calls = <<>>
    /\ index = {}
    /\ getenv \in TableNames
    /\ tableName = ""
    /\ unencodable = {}
    /\ attempt = NoAttempt
    /\ delivered = {}
    /\ pending = NoPending

NextTable == Construct \/ Setenv \/ Invoke \/ NextTabled \/ Step \/ Return

SpecTable == InitTable /\ [][NextTable]_vars

\* ------------------------------------------------------------------ properties
orgA == <<"a">>

orgB == <<"b">>

\* the key with everything up to and including its first separator removed,
\* the key itself when it holds no separator
SuffixAfterSep(k) ==
    IF \A j \in 1..Len(k) : k[j] # Sep
    THEN k
    ELSE LET j == CHOOSE n \in 1..Len(k) :
                      k[n] = Sep /\ \A m \in 1..(n - 1) : k[m] # Sep
         IN  SubSeq(k, j + 1, Len(k))

\* the positions of reqs holding an operation op on the record of target t
OpsOn(reqs, op, t) ==
    {j \in 1..Len(reqs) : reqs[j].op = op /\ reqs[j].pk = OrgPrefix \o t}

Targets(reqs, op) == {t \in Orgs : OpsOn(reqs, op, t) # {}}

\* the switch has produced the write requests of a record of this kind
Produced(name) == pc = "send" /\ der.EventName = name

Before == der.OldImage.organizations.L

After == der.NewImage.organizations.L

\* C1: once every change of the users table has been processed in order
\* (the queue is empty and no invocation runs), the table holds
\* (ORGANIZATION#t, MEMBERSHIP#localID(k)) exactly for the organizations t of
\* each user k, localID being the suffix after the separator.
C1_IndexConsistentWhenDrained ==
    (pc = "idle" /\ queue = <<>>) =>
        \A k \in UserKeys, t \in Orgs :
            ([pk |-> OrgPrefix \o t, sk |-> MemPrefix \o SuffixAfterSep(k)] \in index)
            <=> (users[k].present /\ t \in Range(users[k].organizations))

\* The same with the sort key the handler derives (extractUserID): it holds
\* for the keys of UserKeys, whose derived ids differ.
IndexConsistentForDerivedKeys ==
    (pc = "idle" /\ queue = <<>>) =>
        \A k \in UserKeys, t \in Orgs :
            ([pk |-> OrgPrefix \o t, sk |-> MemPrefix \o extractUserID(k)] \in index)
            <=> (users[k].present /\ t \in Range(users[k].organizations))

\* C2: for a MODIFY record with both images, the targets deleted are exactly
\* those of the old list missing from the new one, the targets put exactly
\* those of the new list missing from the old one, every request is one of
\* these, and a target of both lists gets no request.
C2_ModifyDelta ==
    (Produced("MODIFY") /\ ~der.OldImage.nil /\ ~der.NewImage.nil) =>
        /\ Targets(writeRequests, "DeleteRequest") = Range(Before) \ Range(After)
        /\ Targets(writeRequests, "PutRequest") = Range(After) \ Range(Before)
        /\ \A j \in 1..Len(writeRequests) :
               \E t \in Orgs : writeRequests[j].pk = OrgPrefix \o t
        /\ \A t \in Range(Before) \cap Range(After) :
               /\ OpsOn(writeRequests, "DeleteRequest", t) = {}
               /\ OpsOn(writeRequests, "PutRequest", t) = {}

C2_Witness ==
    /\ Produced("MODIFY")
    /\ ~der.OldImage.nil
    /\ Before = <<orgA, orgB>>
    /\ After = <<orgB>>
    /\ Len(writeRequests) = 1
    /\ writeRequests[1].op = "DeleteRequest"
    /\ writeRequests[1].pk = OrgPrefix \o orgA

\* C3: for a MODIFY record, every target of the old list missing from the
\* new one gets exactly one delete and every target of the new list missing
\* from the old one exactly one put, however often the lists repeat it.
C3_ModifyNoDuplicates ==
    (Produced("MODIFY") /\ ~der.OldImage.nil /\ ~der.NewImage.nil) =>
        /\ \A t \in Range(Before) \ Range(After) :
               Cardinality(OpsOn(writeRequests, "DeleteRequest", t)) = 1
        /\ \A t \in Range(After) \ Range(Before) :
               Cardinality(OpsOn(writeRequests, "PutRequest", t)) = 1

\* C4: for an INSERT record with a new image, the write requests are one put
\* per entry of the new list, in list order with repeats kept, under the
\* sort key derived from the new image's pk, whatever the old image holds.
C4_InsertPuts ==
    Produced("INSERT") =>
        /\ ~der.NewImage.nil
        /\ Len(writeRequests) = Len(After)
        /\ \A j \in 1..Len(After) :
               writeRequests[j] =
                   [op |-> "PutRequest", pk |-> OrgPrefix \o After[j],
                    sk |-> MemPrefix \o extractUserID(der.NewImage.pk.S)]

C4_Witness ==
    /\ Produced("INSERT")
    /\ After = <<orgA, orgA>>
    /\ ~der.OldImage.nil
    /\ der.OldImage.pk.ok
    /\ der.OldImage.pk.S # der.NewImage.pk.S
    /\ Before = <<orgB>>
    /\ Len(writeRequests) = 2

\* C5: for a REMOVE record with an old image, the write requests are one
\* delete per entry of the old list, in list order, under the sort key
\* derived from the old image's pk, whatever the new image holds.
C5_RemoveDeletes ==
    Produced("REMOVE") =>
        /\ ~der.OldImage.nil
        /\ Len(writeRequests) = Len(Before)
        /\ \A j \in 1..Len(Before) :
               writeRequests[j] =
                   [op |-> "DeleteRequest", pk |-> OrgPrefix \o Before[j],
                    sk |-> MemPrefix \o extractUserID(der.OldImage.pk.S)]

C5_Witness ==
    /\ Produced("REMOVE")
    /\ Before = <<orgA, orgB>>
    /\ ~der.NewImage.nil
    /\ der.NewImage.pk.ok
    /\ der.NewImage.pk.S # der.OldImage.pk.S
    /\ After = <<orgB>>
    /\ Len(writeRequests) = 2

\* C6: the write requests of an INSERT record equal those the MODIFY case
\* gives for the same new image with no old image or an empty old list, and
\* the write requests of a REMOVE record equal those the MODIFY case gives
\* for the same old image and a new image of the same key with an empty list.
C6_InsertRemoveAsModify ==
    /\ Produced("INSERT") =>
           /\ writeRequests =
                  eventSwitch([EventName |-> "MODIFY", OldImage |-> NilImage,
                               NewImage |-> der.NewImage]).reqs
           /\ writeRequests =
                  eventSwitch([EventName |-> "MODIFY",
                               OldImage |-> UserImage(der.NewImage.pk.S, <<>>),
                               NewImage |-> der.NewImage]).reqs
    /\ Produced("REMOVE") =>
           writeRequests =
               eventSwitch([EventName |-> "MODIFY", OldImage |-> der.OldImage,
                            NewImage |-> UserImage(der.OldImage.pk.S, <<>>)]).reqs

C6_Witness ==
    /\ Produced("INSERT")
    /\ After = <<orgA, orgA>>
    /\ Len(writeRequests) = 2

\* the pk the case of the record's kind reads
EntityKey == IF der.EventName = "REMOVE" THEN der.OldImage.pk.S ELSE der.NewImage.pk.S

\* C7: every write request for target t of an entity key has pk
\* "ORGANIZATION#" + t and sk "MEMBERSHIP#" + the whole suffix of the key
\* after its first separator (the key itself when it holds no separator),
\* puts and deletes alike.
C7_IndexKeyDerivation ==
    (pc = "send") =>
        \A j \in 1..Len(writeRequests) :
            /\ \E t \in Orgs : writeRequests[j].pk = OrgPrefix \o t
            /\ writeRequests[j].sk = MemPrefix \o SuffixAfterSep(EntityKey)

\* The same for the keys holding at most one separator: there the second
\* part of the split is the whole suffix, and a key with no separator is
\* kept whole.
KeyDerivationUpToOneSeparator ==
    (pc = "send" /\ Cardinality({j \in 1..Len(EntityKey) : EntityKey[j] = Sep}) <= 1) =>
        \A j \in 1..Len(writeRequests) :
            /\ \E t \in Orgs : writeRequests[j].pk = OrgPrefix \o t
            /\ writeRequests[j].sk = MemPrefix \o SuffixAfterSep(EntityKey)

\* the record's kind requires an image that the record lacks
MissingSnapshot(d) ==
    \/ d.EventName = "REMOVE" /\ d.OldImage.nil
    \/ d.EventName = "MODIFY" /\ d.NewImage.nil
    \/ d.EventName = "INSERT" /\ d.NewImage.nil

\* C8: the step that handles a decoded record lacking the image its kind
\* requires makes no storage call, leaves the table alone, sets no error and
\* moves the loop to the next record.
C8_BusinessSkip ==
    [][(pc = "switch" /\ MissingSnapshot(der)) =>
           /\ calls' = calls
           /\ index' = index
           /\ result = "none"
           /\ result' = "none"
           /\ pc' = "loop"
           /\ i' = i + 1]_vars

C8_Witness ==
    /\ Len(outcomes) = 1
    /\ outcomes[1] = "skipped"
    /\ calls = <<>>
    /\ result = "none"
    /\ pc = "switch"
    /\ i = 1

\* C9: a body that json.Unmarshal rejects ends the invocation with the
\* unmarshal error as soon as it is decoded; the calls made are those of the
\* records before it.
C9_DecodeFailFast ==
    /\ body.malformed =>
           \/ pc = "unmarshal"
           \/ /\ pc = "done"
              /\ result = "unmarshal_error"
    /\ result = "unmarshal_error" =>
           /\ pc = "done"
           /\ body.malformed
           /\ Len(outcomes) = i
           /\ \A j \in 1..Len(calls) : calls[j].rec <= i /\ ~calls[j].err

C9_Witness ==
    /\ result = "unmarshal_error"
    /\ nrecords = 2
    /\ i = 1
    /\ Len(calls) = 1
    /\ index # {}

\* C10: a BatchWriteItem call that returned an error is the last call of the
\* invocation and the only one for its record; the invocation has ended with
\* the batch write error and the loop has not moved past that record.
C10_StorageFailFast ==
    \A j \in 1..Len(calls) :
        calls[j].err =>
            /\ j = Len(calls)
            /\ result = "batch_write_error"
            /\ pc = "done"
            /\ calls[j].rec = i + 1
            /\ Len(outcomes) = i
            /\ \A m \in 1..(j - 1) : calls[m].rec < calls[j].rec

C10_Witness ==
    /\ result = "batch_write_error"
    /\ nrecords = 2
    /\ i = 0
    /\ Len(calls) = 1
    /\ calls[1].err

\* C11: the invocation has a result exactly when it is over; it returns nil
\* only after every record of the event was decoded and handled, every call
\* made returned no error and every record with write requests had its call;
\* every other result is an error that ended the invocation before the
\* record it stopped at was finished.
C11_NoPartialSuccess ==
    /\ (result # "none") <=> (pc = "done")
    /\ result = "nil" =>
           /\ i = nrecords
           /\ Len(outcomes) = nrecords
           /\ \A c \in 1..Len(calls) : ~calls[c].err
           /\ \A j \in 1..nrecords :
                  (outcomes[j] = "written") <=> (\E c \in 1..Len(calls) : calls[c].rec = j)
    /\ result \in {"unmarshal_error", "batch_write_error", "panic"} =>
           /\ i < nrecords
           /\ Len(outcomes) = i

C11_Witness ==
    /\ result = "nil"
    /\ nrecords = 2
    /\ outcomes = <<"written", "written">>
    /\ Len(calls) = 2

\* the organizations of an image, none when the image or the attribute is
\* absent
MembersOf(image) == IF image.nil THEN {} ELSE Range(readOrganizations(image))

\* the record's memberships do not change: a MODIFY with equal sets before
\* and after, an INSERT or a REMOVE with no memberships
NoMembershipChange(d) ==
    \/ d.EventName = "MODIFY" /\ MembersOf(d.OldImage) = MembersOf(d.NewImage)
    \/ d.EventName = "INSERT" /\ MembersOf(d.NewImage) = {}
    \/ d.EventName = "REMOVE" /\ MembersOf(d.OldImage) = {}

\* C12: a record whose memberships do not change has no write requests, and
\* the step that handles a record with no write requests makes no storage
\* call, leaves the table alone, sets no error and moves to the next record.
C12_EmptyDeltaNoCall ==
    [][/\ (pc = "send" /\ NoMembershipChange(der)) => writeRequests = <<>>
       /\ (pc = "send" /\ writeRequests = <<>>) =>
              /\ calls' = calls
              /\ index' = index
              /\ result = "none"
              /\ result' = "none"
              /\ pc' = "loop"
              /\ i' = i + 1]_vars

C12_Witness ==
    /\ outcomes = <<"written", "empty">>
    /\ Len(calls) = 1
    /\ index # {}
    /\ result = "nil"

\* C13: the requests sent for a record are the ones the switch derived from
\* that record alone; a step that makes a storage call makes exactly one,
\* for the record at hand, which had none before, and a call that succeeds
\* applies every request of the record; the table changes in no other step.
C13_OneCallPerRecord ==
    [][/\ (pc = "send") =>
              /\ der = Unmarshal(body).der
              /\ writeRequests = eventSwitch(der).reqs
       /\ (calls' # calls) =>
              /\ pc = "send"
              /\ Len(writeRequests) > 0
              /\ Len(calls') = Len(calls) + 1
              /\ SubSeq(calls', 1, Len(calls)) = calls
              /\ calls'[Len(calls')].rec = i + 1
              /\ \A c \in 1..Len(calls) : calls[c].rec < i + 1
              /\ ~calls'[Len(calls')].err =>
                     index' = ApplyRequests(index, writeRequests)
              /\ calls'[Len(calls')].err =>
                     \E keep \in SUBSET (1..Len(writeRequests)) :
                         index' = ApplyRequests(index, Selected(writeRequests, keep))
       /\ (index' # index) => (calls' # calls)]_vars

C13_Witness ==
    /\ Len(calls) = 1
    /\ calls[1] = [rec |-> 2, err |-> FALSE, table |-> tableName]
    /\ Cardinality(index) = 2
    /\ i = 2

\* the records before position i + 1 are finished, each call belongs to a
\* finished record or is the failed call of the record at hand, the calls
\* are in the order of the records, and every finished record with write
\* requests has its call
InOrder ==
    /\ Len(outcomes) = i
    /\ i <= nrecords
    /\ \A c \in 1..Len(calls) :
           \/ calls[c].rec <= i
           \/ calls[c].rec = i + 1 /\ calls[c].err /\ pc = "done"
    /\ \A c, d \in 1..Len(calls) : c < d => calls[c].rec < calls[d].rec
    /\ \A j \in 1..Len(outcomes) :
           (outcomes[j] = "written") =>
               \E c \in 1..Len(calls) : calls[c].rec = j /\ ~calls[c].err

\* C14: the records are handled one at a time in the order of the event:
\* the position moves by one record at a time, and whenever a record is
\* taken up, decoded or handled, every call of the records before it has
\* returned and no call of a later record has been made.
C14_SequentialInOrder ==
    [][/\ InOrder
       /\ InOrder'
       /\ i' \in {i, i + 1}
       /\ (pc' = "unmarshal") => (pc = "loop" /\ i' = i /\ i < nrecords)]_vars

C14_Witness ==
    /\ pc = "unmarshal"
    /\ i = 1
    /\ calls = <<[rec |-> 1, err |-> FALSE, table |-> tableName]>>
    /\ index # {}

RECURSIVE FailureFree(_, _)
FailureFree(table, bodies) ==
    IF bodies = <<>> THEN table
    ELSE FailureFree(ApplyRequests(table, eventSwitch(Unmarshal(Head(bodies)).der).reqs),
                     Tail(bodies))

\* C16: when a delivery of a batch was aborted by a failed call, whatever
\* part of that call was applied, and a later delivery of the same batch
\* returns nil, the table equals the one a single delivery without failure
\* yields from the table the first delivery started with.
C16_RedeliveryConverges ==
    (result = "nil" /\ attempt.aborted) =>
        index = FailureFree(attempt.start, SubSeq(queue, 1, nrecords))

C16_Witness ==
    /\ result = "nil"
    /\ attempt.aborted
    /\ nrecords = 2
    /\ Len(calls) = 2
    /\ index # attempt.start
    /\ attempt.start # {}

\* the table holds the record of organization t for user k exactly when t is
\* among the memberships of k
ConsistentFor(k) ==
    \A t \in Orgs :
        (IndexRecord(t, k) \in index)
        <=> (users[k].present /\ t \in Range(users[k].organizations))

BothDone == \A v \in Invocations : pending[v].state = "done"

\* the keys of the write requests of invocation v
KeysWritten(v) == {IndexKey(pending[v].reqs[j]) : j \in 1..Len(pending[v].reqs)}

\* C17: when two invocations that handle two changes of the same user run
\* at once and both have finished, the table is consistent with the user's
\* memberships, however their writes were interleaved.
C17_ConcurrentConverge ==
    BothDone => ConsistentFor(EntityOne)

\* C17, amended: the same, provided no key is written by both invocations.
C17_ConcurrentDisjointConverge ==
    (BothDone /\ KeysWritten(1) \cap KeysWritten(2) = {}) => ConsistentFor(EntityOne)

C17_Witness ==
    /\ BothDone
    /\ KeysWritten(1) # {}
    /\ KeysWritten(2) # {}
    /\ KeysWritten(1) \cap KeysWritten(2) = {}
    /\ Cardinality(index) = 2

\* the last invocation returned nil and handled the latest message
LatestApplied ==
    /\ pc = "idle"
    /\ result = "nil"
    /\ queue # <<>>
    /\ nrecords = Len(queue)

LastRecord == Unmarshal(queue[Len(queue)]).der

\* the organizations a record adds or removes
Flipped(d) ==
    (MembersOf(d.OldImage) \ MembersOf(d.NewImage))
    \cup (MembersOf(d.NewImage) \ MembersOf(d.OldImage))

\* C18: when every message of the user has been handled at least once, in
\* any order and any number of times, and the message handled last is the
\* latest one, the table is consistent with the user's memberships.
C18_ReorderedConverge ==
    (LatestApplied /\ delivered = 1..Len(queue)) => ConsistentFor(EntityOne)

\* C18, amended: when the message handled last is the latest one, the table
\* is consistent with the user's memberships on every organization that
\* message adds or removes, and on every organization when the user has at
\* most two messages and both were handled.
C18_LastDeltaApplied ==
    LatestApplied =>
        /\ \A t \in Flipped(LastRecord) :
               (IndexRecord(t, EntityOne) \in index)
               <=> (users[EntityOne].present
                    /\ t \in Range(users[EntityOne].organizations))
        /\ (Len(queue) <= 2 /\ delivered = 1..Len(queue)) => ConsistentFor(EntityOne)

C18_Witness ==
    /\ LatestApplied
    /\ Len(queue) = 3
    /\ delivered = 1..3
    /\ Flipped(LastRecord) # {}
    /\ ~ConsistentFor(EntityOne)

\* the organizations a record requires a put for
PutTargets(d) ==
    CASE d.EventName = "INSERT" -> MembersOf(d.NewImage)
      [] d.EventName = "MODIFY" -> MembersOf(d.NewImage) \ MembersOf(d.OldImage)
      [] OTHER -> {}

\* C19: the invocation does not return nil for a message one of whose puts
\* could not be encoded.
C19_MarshalFailureRaised ==
    (result = "nil") => (PutTargets(Unmarshal(queue[1]).der) \cap unencodable = {})

\* the case of the record's kind reads the pk of an image whose pk is
\* missing or not of type S
UnreadablePK(d) ==
    \/ d.EventName = "REMOVE" /\ ~d.OldImage.nil /\ ~d.OldImage.pk.ok
    \/ d.EventName \in {"MODIFY", "INSERT"} /\ ~d.NewImage.nil /\ ~d.NewImage.pk.ok

AbsentMemberships(image) == ~image.nil /\ ~image.organizations.ok

\* the image with an empty list in place of an absent "organizations"
WithEmptyList(image) ==
    IF AbsentMemberships(image)
    THEN [image EXCEPT !.organizations = [ok |-> TRUE, L |-> <<>>]]
    ELSE image

\* the case of the record's kind reads the memberships of an image that has
\* a string pk and no "organizations" attribute
ReadsAbsent(d) ==
    \/ d.EventName = "REMOVE" /\ AbsentMemberships(d.OldImage) /\ d.OldImage.pk.ok
    \/ d.EventName = "INSERT" /\ AbsentMemberships(d.NewImage) /\ d.NewImage.pk.ok
    \/ /\ d.EventName = "MODIFY"
       /\ ~d.NewImage.nil
       /\ d.NewImage.pk.ok
       /\ AbsentMemberships(d.OldImage) \/ AbsentMemberships(d.NewImage)

\* C21: the switch handles a record whose image lacks the "organizations"
\* attribute without an error: an INSERT or a REMOVE gets no write requests,
\* and a MODIFY gets the requests of the same record with an empty list in
\* place of each absent attribute.
C21_AbsentMembershipsEmpty ==
    [][(pc = "switch" /\ ReadsAbsent(der)) =>
           /\ pc' = "send"
           /\ result' = "none"
           /\ der.EventName \in {"INSERT", "REMOVE"} => writeRequests' = <<>>
           /\ der.EventName = "MODIFY" =>
                  writeRequests' =
                      eventSwitch([der EXCEPT !.OldImage = WithEmptyList(@),
                                              !.NewImage = WithEmptyList(@)]).reqs]_vars

C21_Witness ==
    /\ Produced("MODIFY")
    /\ AbsentMemberships(der.OldImage)
    /\ After = <<orgA, orgB>>
    /\ Len(writeRequests) = 2
    /\ result = "none"

\* the organization id of a write request
OrgOf(req) == SubSeq(req.pk, Len(OrgPrefix) + 1, Len(req.pk))

\* the organization ids of the requests of kind op, in the order of reqs
OrgsOf(reqs, op) ==
    LET sel == SelectSeq(reqs, LAMBDA r : r.op = op)
    IN  [j \in 1..Len(sel) |-> OrgOf(sel[j])]

\* the two lists the MODIFY case compares
ModifyBefore == IF der.OldImage.nil THEN <<>> ELSE readOrganizations(der.OldImage)

ModifyAfter == readOrganizations(der.NewImage)

\* C24: in the write requests of a MODIFY record no put comes before a
\* delete, the deletes are the entries of the before-list missing from the
\* after-list in the order of the before-list, and the puts are the entries
\* of the after-list missing from the before-list in the order of the
\* after-list.
C24_ModifyWriteOrder ==
    Produced("MODIFY") =>
        /\ \A j, k \in 1..Len(writeRequests) :
               (j < k) => ~(/\ writeRequests[j].op = "PutRequest"
                            /\ writeRequests[k].op = "DeleteRequest")
        /\ OrgsOf(writeRequests, "DeleteRequest")
               = SelectSeq(ModifyBefore, LAMBDA o : o \notin Range(ModifyAfter))
        /\ OrgsOf(writeRequests, "PutRequest")
               = SelectSeq(ModifyAfter, LAMBDA o : o \notin Range(ModifyBefore))

C24_Witness ==
    /\ Produced("MODIFY")
    /\ ~der.OldImage.nil
    /\ Before = <<orgB>>
    /\ After = <<orgA>>
    /\ Len(writeRequests) = 2
    /\ writeRequests[1].op = "DeleteRequest"
    /\ writeRequests[2].op = "PutRequest"

\* the keys of the requests of kind op
KeysOf(reqs, op) == {IndexKey(reqs[j]) : j \in {n \in 1..Len(reqs) : reqs[n].op = op}}

\* C25: in the write requests of a MODIFY record no key is both deleted and
\* put.
C25_ModifyKeysDisjoint ==
    Produced("MODIFY") =>
        KeysOf(writeRequests, "DeleteRequest") \cap KeysOf(writeRequests, "PutRequest") = {}

C25_Witness ==
    /\ Produced("MODIFY")
    /\ ~der.OldImage.nil
    /\ Before = <<orgA, orgB>>
    /\ After = <<orgB, orgB>>
    /\ Len(writeRequests) = 1

\* C26: the switch handles a MODIFY record that has a new image with a
\* string pk and no old image by producing one put per entry of the new
\* list, in order, and no delete; the record is not skipped.
C26_ModifyWithoutBefore ==
    [][(/\ pc = "switch"
        /\ der.EventName = "MODIFY"
        /\ der.OldImage.nil
        /\ ~der.NewImage.nil
        /\ der.NewImage.pk.ok) =>
           /\ pc' = "send"
           /\ i' = i
           /\ Len(writeRequests') = Len(ModifyAfter)
           /\ \A j \in 1..Len(ModifyAfter) :
                  writeRequests'[j] =
                      [op |-> "PutRequest", pk |-> OrgPrefix \o ModifyAfter[j],
                       sk |-> MemPrefix \o extractUserID(der.NewImage.pk.S)]]_vars

C26_Witness ==
    /\ Produced("MODIFY")
    /\ der.OldImage.nil
    /\ After = <<orgB, orgA>>
    /\ Len(writeRequests) = 2

\* the record's kind is none of the three the switch names
UnknownKind(d) == d.EventName \notin {"INSERT", "MODIFY", "REMOVE"}

\* C27: a decoded record of an unknown kind gets no write requests from the
\* switch, whatever its images hold, and the step that follows makes no
\* storage call, leaves the table alone, sets no error and moves to the next
\* record.
C27_UnknownKindIgnored ==
    [][/\ (pc = "switch" /\ UnknownKind(der)) =>
              /\ pc' = "send"
              /\ writeRequests' = <<>>
              /\ result' = "none"
              /\ calls' = calls
              /\ index' = index
       /\ (pc = "send" /\ UnknownKind(der)) =>
              /\ pc' = "loop"
              /\ i' = i + 1
              /\ result' = "none"
              /\ calls' = calls
              /\ index' = index]_vars

C27_Witness ==
    /\ pc = "send"
    /\ der.EventName = "OTHER"
    /\ ~der.NewImage.nil
    /\ ~der.NewImage.pk.ok
    /\ writeRequests = <<>>
    /\ i = 1
    /\ index # {}

\* the key has the documented format "<TYPE>#<id>" with the type "U"
TypedKey(k) == Len(k) >= 2 /\ k[1] = "U" /\ k[2] = Sep

\* C23: the key of a write request made for one user is the key of no
\* record of another user: for user keys of the documented format and one
\* type, no other key derives, for any organization, the index key of a
\* request of the record at hand.
C23_IndexKeyInjective ==
    (pc = "send" /\ TypedKey(EntityKey)) =>
        \A j \in 1..Len(writeRequests) :
            \A k \in {x \in AllKeys : TypedKey(x) /\ x # EntityKey}, t \in Orgs :
                IndexRecord(t, k) # IndexKey(writeRequests[j])

\* The same for the ids that hold no separator: there the derived id is
\* the whole id, and different users have different records.
KeyInjectiveForPlainIds ==
    (pc = "send" /\ TypedKey(EntityKey)
     /\ Cardinality({j \in 1..Len(EntityKey) : EntityKey[j] = Sep}) = 1) =>
        \A j \in 1..Len(writeRequests) :
            \A k \in {x \in AllKeys :
                          /\ TypedKey(x)
                          /\ x # EntityKey
                          /\ Cardinality({n \in 1..Len(x) : x[n] = Sep}) = 1},
               t \in Orgs :
                IndexRecord(t, k) # IndexKey(writeRequests[j])

\* C22: the construction of the handler sets tableName to what getenv
\* returns for TABLE_NAME then, or to "poc-organizations" when that is the
\* empty string (unset or empty); no later step changes it, whatever getenv
\* returns later, no call is made before the construction, and every call
\* of every invocation names tableName as its one table.
C22_SingleDestinationTable ==
    [][/\ (pc = "new") =>
              /\ calls' = <<>>
              /\ \/ pc' = "new" /\ tableName' = tableName
                 \/ /\ pc' # "new"
                    /\ tableName' = IF getenv = "" THEN "poc-organizations" ELSE getenv
       /\ (pc # "new") =>
              /\ pc' # "new"
              /\ tableName' = tableName
              /\ tableName # ""
       /\ \A c \in 1..Len(calls') : calls'[c].table = tableName']_vars

C22_Witness ==
    /\ Len(calls) = 2
    /\ calls[1].table = "poc-organizations"
    /\ calls[2].table = "poc-organizations"
    /\ getenv = "test-table"
    /\ index # {}

====
